---- MODULE Spec2Model ----
(***************************************************************************)
(* A model of the dmutils helpers:                                         *)
(*   - dmutils/views.py              DownloadFileView.dispatch_request     *)
(*   - dmutils/email/user_account_email.py   send_user_account_email       *)
(*   - dmutils/email/dm_mailchimp.py (known through its tests)             *)
(*   - dmutils/logging.py            init_app / get_handlers               *)
(* Each helper has its own specification; the variables of the other       *)
(* helpers stay at their initial values under it.                          *)
(***************************************************************************)
EXTENDS Integers, Sequences, FiniteSets, TLC

VARIABLES
    \* ---- DownloadFileView (views.py)
    pc,             \* position of dispatch_request
    kwargs,         \* the URL arguments dispatch_request was called with
    calls,          \* methods of the view called so far in this request, in order
    clients,        \* TRUE once _init_clients has run
    file_context,   \* local of dispatch_request
    file_type,      \* local of dispatch_request
    response,       \* local of dispatch_request
    hook_response,  \* the argument _post_request_hook was called with
    returned,       \* what dispatch_request returned
    abort_code,     \* the HTTP error raised by abort(), 0 when none
    \* ---- send_user_account_email (email/user_account_email.py)
    epc,            \* position of send_user_account_email
    args,           \* the arguments of the call
    token_data,     \* local
    token,          \* local
    link_url,       \* local
    personalisation_with_link,  \* local
    email_calls,    \* generate_token / url_for / send_email, in call order
    notify_calls,   \* the arguments of each notify_client.send_email call
    send_outcome,   \* how send_email ended: "returned", "EmailError", "OtherError"
    session,        \* the Flask session: lives across calls
    app_log,        \* current_app.logger.error calls made by this call
    email_abort,    \* the HTTP error raised by abort(), 0 when none
    \* ---- DMMailChimpClient (email/dm_mailchimp.py)
    mc_call,        \* the last operation called, its arguments and what the API did
    mc_result,      \* what the operation returned
    mc_raised,      \* the exception that left the operation, None when none
    mc_log,         \* the logger.error calls of the client's logger, oldest first
    \* ---- logging.init_app (logging.py)
    configs,        \* app.config of each Flask app
    handlers,       \* logger -> its list of handlers (logging's global state)
    levels,         \* logger -> its level
    after_request_funcs, \* app -> number of after_request functions registered
    init_calls,     \* number of init_app calls made so far
    last_init,      \* the app and configuration of the most recent init_app call
    emitted         \* where the "Logging configured" record of that call was written

view_vars == <<pc, kwargs, calls, clients, file_context, file_type, response,
               hook_response, returned, abort_code>>

email_vars == <<epc, args, token_data, token, link_url, personalisation_with_link,
                email_calls, notify_calls, send_outcome, session, app_log,
                email_abort>>

mc_vars == <<mc_call, mc_result, mc_raised, mc_log>>

log_vars == <<configs, handlers, levels, after_request_funcs, init_calls,
              last_init, emitted>>

vars == <<view_vars, email_vars, mc_vars, log_vars>>

-----------------------------------------------------------------------------
(* Python values, and helpers on call sequences *)

None == "None"

\* a Python None where a record is expected
NoneRec == [none |-> TRUE]

\* how often x occurs in s

RECURSIVE Count(_, _)
Count(s, x) ==
    IF s = <<>> THEN 0
    ELSE (IF Head(s) = x THEN 1 ELSE 0) + Count(Tail(s), x)

\* the index of the first x in s, 0 when absent
RECURSIVE IndexFrom(_, _, _)
IndexFrom(s, x, i) ==
    IF i > Len(s) THEN 0
    ELSE IF s[i] = x THEN i ELSE IndexFrom(s, x, i + 1)

Index(s, x) == IndexFrom(s, x, 1)

IsPrefix(s, t) == Len(s) <= Len(t) /\ SubSeq(t, 1, Len(s)) = s

-----------------------------------------------------------------------------
(* DownloadFileView *)

HTTP_OK == 200
HTTP_BAD_REQUEST == 400

\* FILETYPES = enum.Enum('Filetypes', ['CSV', 'ODF'])
FILETYPES == {"CSV", "ODF"}

\* What a subclass's determine_filetype can hand back: a member of FILETYPES,
\* None (a method without a return), or any other Python value.
FiletypeReturns == FILETYPES \cup {None, "OtherValue"}

Filenames == {"my-download", "report"}

\* the view arguments of the URL rule, passed on as **kwargs
KwargSets == { [framework_slug |-> "g-cloud"], [framework_slug |-> "dos"] }

\* results of a subclass's generate_csv_rows
CsvRowSets == { <<<<"heading 1">>, <<"row 1">>>>, <<<<"heading 1">>>> }

\* ods.SpreadSheet() as configured by create_default_ods
create_default_ods ==
    [fonts  |-> {"Arial"},
     styles |-> {"col-default", "col-wide", "row-default", "row-tall",
                 "cell-default", "cell-header"},
     sheets |-> <<>>]

\* results of a subclass's generate_ods(spreadsheet, file_context)
OdsSheets(spreadsheet) ==
    { spreadsheet, [spreadsheet EXCEPT !.sheets = <<"sheet1">>] }

\* lines 69-82, given the rows generate_csv_rows returned
create_csv_response(ctx, csv_rows) ==
    [body     |-> <<"iter_csv", csv_rows, "QUOTE_ALL">>,
     mimetype |-> "text/csv",
     headers  |-> [ContentDisposition |-> <<"attachment;filename=", ctx.filename, ".csv">>,
                   ContentType |-> "text/csv; header=present"],
     status   |-> HTTP_OK]

\* create_ods_response with the attachment name of create_csv_response
create_ods_response_CsvName(ctx, sheet) ==
    [body     |-> <<"ods", sheet>>,
     mimetype |-> "application/vnd.oasis.opendocument.spreadsheet",
     headers  |-> [ContentDisposition |-> <<"attachment;filename=", ctx.filename, ".csv">>,
                   ContentType |-> "application/vnd.oasis.opendocument.spreadsheet"],
     status   |-> HTTP_OK]

\* lines 124-140, given the spreadsheet generate_ods returned
create_ods_response(ctx, sheet) ==
    [body     |-> <<"ods", sheet>>,
     mimetype |-> "application/vnd.oasis.opendocument.spreadsheet",
     headers  |-> [ContentDisposition |-> <<"attachment;filename=", ctx.filename, ".ods">>,
                   ContentType |-> "application/vnd.oasis.opendocument.spreadsheet"],
     status   |-> HTTP_OK]

\* the branch without the test for None
DispatchBranch_NoNoneCheck(ft) ==
    IF ft = "CSV" THEN "create_csv_response" ELSE "create_ods_response"

\* the branch aborting on every value outside FILETYPES
DispatchBranch_AbortUnknown(ft) ==
    IF ft \notin FILETYPES THEN "abort"
    ELSE IF ft = "CSV" THEN "create_csv_response"
    ELSE "create_ods_response"

\* lines 151-158: the three-way branch on file_type
DispatchBranch(ft) ==
    IF ft = None THEN "abort"
    ELSE IF ft = "CSV" THEN "create_csv_response"
    ELSE "create_ods_response"

ViewInit ==
    /\ pc = "idle"
    /\ kwargs = NoneRec
    /\ calls = <<>>
    /\ clients = FALSE
    /\ file_context = NoneRec
    /\ file_type = None
    /\ response = NoneRec
    /\ hook_response = NoneRec
    /\ returned = NoneRec
    /\ abort_code = 0

\* Flask builds a fresh view object for a request and calls dispatch_request:
\* line 143, response = None.
DispatchRequest ==
    /\ pc \in {"idle", "returned", "aborted", "raised"}
    /\ pc' = "pre_request_hook"
    /\ \E kw \in KwargSets : kwargs' = kw
    /\ calls' = <<>>
    /\ clients' = FALSE
    /\ file_context' = NoneRec
    /\ file_type' = None
    /\ response' = NoneRec
    /\ hook_response' = NoneRec
    /\ returned' = NoneRec
    /\ abort_code' = 0

\* line 145
PreRequestHook ==
    /\ pc = "pre_request_hook"
    /\ calls' = Append(calls, "_pre_request_hook")
    /\ pc' = "init_clients"
    /\ UNCHANGED <<kwargs, clients, file_context, file_type, response, hook_response,
                   returned, abort_code>>

\* line 146
InitClients ==
    /\ pc = "init_clients"
    /\ calls' = Append(calls, "_init_clients")
    /\ clients' = TRUE
    /\ pc' = "get_file_context"
    /\ UNCHANGED <<kwargs, file_context, file_type, response, hook_response,
                   returned, abort_code>>

\* line 148
GetFileContext ==
    /\ pc = "get_file_context"
    /\ calls' = Append(calls, "get_file_context")
    /\ \E f \in Filenames : file_context' = [filename |-> f]
    /\ pc' = "determine_filetype"
    /\ UNCHANGED <<kwargs, clients, file_type, response, hook_response,
                   returned, abort_code>>

\* line 149
DetermineFiletype ==
    /\ pc = "determine_filetype"
    /\ calls' = Append(calls, "determine_filetype")
    /\ \E t \in FiletypeReturns : file_type' = t
    /\ pc' = "branch"
    /\ UNCHANGED <<kwargs, clients, file_context, response, hook_response,
                   returned, abort_code>>

\* lines 151-152: abort(400) raises, nothing below it runs
AbortBadRequest ==
    /\ pc = "branch"
    /\ DispatchBranch(file_type) = "abort"
    /\ abort_code' = HTTP_BAD_REQUEST
    /\ pc' = "aborted"
    /\ UNCHANGED <<kwargs, calls, clients, file_context, file_type, response,
                   hook_response, returned>>

\* lines 154-155
BuildCsv ==
    /\ pc = "branch"
    /\ DispatchBranch(file_type) = "create_csv_response"
    /\ calls' = calls \o <<"create_csv_response", "generate_csv_rows">>
    /\ \E rows \in CsvRowSets : response' = create_csv_response(file_context, rows)
    /\ pc' = "post_request_hook"
    /\ UNCHANGED <<kwargs, clients, file_context, file_type, hook_response,
                   returned, abort_code>>

\* lines 157-158
BuildOds ==
    /\ pc = "branch"
    /\ DispatchBranch(file_type) = "create_ods_response"
    /\ calls' = calls \o <<"create_ods_response", "generate_ods">>
    /\ \E sheet \in OdsSheets(create_default_ods) :
           response' = create_ods_response(file_context, sheet)
    /\ pc' = "post_request_hook"
    /\ UNCHANGED <<kwargs, clients, file_context, file_type, hook_response,
                   returned, abort_code>>

\* the hook handed the response of line 143 instead of the built one
PostRequestHook_BeforeBuild ==
    /\ pc = "post_request_hook"
    /\ calls' = Append(calls, "_post_request_hook")
    /\ hook_response' = NoneRec
    /\ pc' = "return"
    /\ UNCHANGED <<kwargs, clients, file_context, file_type, response,
                   returned, abort_code>>

\* line 160
PostRequestHook ==
    /\ pc = "post_request_hook"
    /\ calls' = Append(calls, "_post_request_hook")
    /\ hook_response' = response
    /\ pc' = "return"
    /\ UNCHANGED <<kwargs, clients, file_context, file_type, response,
                   returned, abort_code>>

\* line 161
ReturnResponse ==
    /\ pc = "return"
    /\ returned' = response
    /\ pc' = "returned"
    /\ UNCHANGED <<kwargs, calls, clients, file_context, file_type, response,
                   hook_response, abort_code>>

\* lines 71 and 129: the subclass's generate_csv_rows or generate_ods raises
\* inside create_csv_response / create_ods_response: no response is built
GenerateRaises ==
    /\ pc = "branch"
    /\ \/ /\ DispatchBranch(file_type) = "create_csv_response"
          /\ calls' = calls \o <<"create_csv_response", "generate_csv_rows">>
       \/ /\ DispatchBranch(file_type) = "create_ods_response"
          /\ calls' = calls \o <<"create_ods_response", "generate_ods">>
    /\ pc' = "raised"
    /\ UNCHANGED <<kwargs, clients, file_context, file_type, response,
                   hook_response, returned, abort_code>>

\* One of the methods a subclass supplies (the hooks, _init_clients,
\* get_file_context, determine_filetype) raises: the exception leaves
\* dispatch_request, which catches nothing.
SubclassRaises ==
    /\ pc \in {"pre_request_hook", "init_clients", "get_file_context",
               "determine_filetype", "post_request_hook"}
    /\ pc' = "raised"
    /\ UNCHANGED <<kwargs, calls, clients, file_context, file_type, response,
                   hook_response, returned, abort_code>>

ViewOnly == UNCHANGED <<email_vars, mc_vars, log_vars>>

ViewNext ==
    \/ DispatchRequest /\ ViewOnly
    \/ PreRequestHook /\ ViewOnly
    \/ InitClients /\ ViewOnly
    \/ GetFileContext /\ ViewOnly
    \/ DetermineFiletype /\ ViewOnly
    \/ AbortBadRequest /\ ViewOnly
    \/ BuildCsv /\ ViewOnly
    \/ BuildOds /\ ViewOnly
    \/ PostRequestHook /\ ViewOnly
    \/ ReturnResponse /\ ViewOnly
    \/ GenerateRaises /\ ViewOnly
    \/ SubclassRaises /\ ViewOnly

-----------------------------------------------------------------------------
(* send_user_account_email *)

HTTP_SERVICE_UNAVAILABLE == 503

EmptyDict == <<>>

\* dict.update: the entries of e replace and extend those of d
DictUpdate(d, e) ==
    [k \in (DOMAIN d) \cup (DOMAIN e) |-> IF k \in DOMAIN e THEN e[k] ELSE d[k]]

\* current_app.config
AppConfig ==
    [DM_NOTIFY_API_KEY |-> "notify-key",
     SHARED_EMAIL_KEY  |-> "shared-key",
     INVITE_EMAIL_SALT |-> "invite-salt"]

Roles == {"buyer", "supplier"}
EmailAddresses == {"a@example.com", "b@example.com"}
TemplateIds == {"create_user_account"}
ExtraTokenDatas ==
    { EmptyDict,
      [supplier_id |-> "1234"],
      [role |-> "admin"],
      [supplier_id |-> "1234", role |-> "admin"] }
Personalisations ==
    { EmptyDict, [user |-> "Jo"], [url |-> "http://elsewhere"] }

\* the signed, serialised payload: decoding it gives back the data
generate_token(data, secret_key, salt) ==
    [data |-> data, secret_key |-> secret_key, salt |-> salt]

url_for(endpoint, encoded_token) ==
    [endpoint |-> endpoint, encoded_token |-> encoded_token, _external |-> TRUE]

hash_string(s) == <<"hash", s>>

\* lines 9-13
TokenData(role, email_address, extra_token_data) ==
    DictUpdate([role |-> role, email_address |-> email_address], extra_token_data)

\* lines 23-24
PersonalisationWithLink(personalisation, url) ==
    DictUpdate(personalisation, [url |-> url])

\* lines 27-32
SendEmailCall(email_address, template_id, personalisation) ==
    [to              |-> email_address,
     template_id     |-> template_id,
     personalisation |-> personalisation,
     reference       |-> <<"create-user-account-", hash_string(email_address)>>]

\* an except clause that catches every exception
Catches_AnyException(exc) == exc \in {"EmailError", "OtherError"}

\* line 34: except EmailError
Catches(exc) == exc = "EmailError"

\* lines 35-41
ErrorLogEntry(role, email_address, exc) ==
    [level |-> "ERROR",
     msg   |-> "{code}: Create user email for email_hash {email_hash} failed to send. Error: {error}",
     extra |-> [error      |-> exc,
                email_hash |-> hash_string(email_address),
                code       |-> <<role, "create.fail">>]]

EmailInit ==
    /\ epc = "idle"
    /\ args = NoneRec
    /\ token_data = EmptyDict
    /\ token = NoneRec
    /\ link_url = NoneRec
    /\ personalisation_with_link = EmptyDict
    /\ email_calls = <<>>
    /\ notify_calls = <<>>
    /\ send_outcome = None
    /\ session = [email_sent_to |-> None]
    /\ app_log = <<>>
    /\ email_abort = 0

\* a view calls send_user_account_email(role, email_address, template_id, ...):
\* line 7
SendUserAccountEmail ==
    /\ epc \in {"idle", "returned", "aborted", "raised"}
    /\ \E r \in Roles, e \in EmailAddresses, t \in TemplateIds,
          x \in ExtraTokenDatas, p \in Personalisations :
           args' = [role |-> r, email_address |-> e, template_id |-> t,
                    extra_token_data |-> x, personalisation |-> p]
    /\ epc' = "build_token"
    /\ token_data' = EmptyDict
    /\ token' = NoneRec
    /\ link_url' = NoneRec
    /\ personalisation_with_link' = EmptyDict
    /\ email_calls' = <<>>
    /\ notify_calls' = <<>>
    /\ send_outcome' = None
    /\ app_log' = <<>>
    /\ email_abort' = 0
    /\ UNCHANGED session

\* lines 9-24
BuildToken ==
    /\ epc = "build_token"
    /\ LET td  == TokenData(args.role, args.email_address, args.extra_token_data)
           tk  == generate_token(td, AppConfig.SHARED_EMAIL_KEY, AppConfig.INVITE_EMAIL_SALT)
           url == url_for("external.create_user", tk)
       IN  /\ token_data' = td
           /\ token' = tk
           /\ link_url' = url
           /\ personalisation_with_link' = PersonalisationWithLink(args.personalisation, url)
    /\ email_calls' = email_calls \o <<"generate_token", "url_for">>
    /\ epc' = "send_email"
    /\ UNCHANGED <<args, notify_calls, send_outcome, session, app_log, email_abort>>

\* lines 26-42: the call of notify_client.send_email and what follows it
SendEmail(outcome) ==
    /\ epc = "send_email"
    /\ email_calls' = Append(email_calls, "send_email")
    /\ notify_calls' = Append(notify_calls,
           SendEmailCall(args.email_address, args.template_id, personalisation_with_link))
    /\ send_outcome' = outcome
    /\ IF outcome = "returned"
       THEN \* line 33
            /\ session' = [session EXCEPT !.email_sent_to = args.email_address]
            /\ epc' = "returned"
            /\ UNCHANGED <<app_log, email_abort>>
       ELSE IF Catches(outcome)
       THEN \* lines 35-42
            /\ app_log' = Append(app_log, ErrorLogEntry(args.role, args.email_address, outcome))
            /\ email_abort' = HTTP_SERVICE_UNAVAILABLE
            /\ epc' = "aborted"
            /\ UNCHANGED session
       ELSE \* the exception leaves the function
            /\ epc' = "raised"
            /\ UNCHANGED <<session, app_log, email_abort>>
    /\ UNCHANGED <<args, token_data, token, link_url, personalisation_with_link>>

SendEmailReturns == SendEmail("returned")

SendEmailRaisesEmailError == SendEmail("EmailError")

SendEmailRaisesOther == SendEmail("OtherError")

EmailOnly == UNCHANGED <<view_vars, mc_vars, log_vars>>

EmailNext ==
    \/ SendUserAccountEmail /\ EmailOnly
    \/ BuildToken /\ EmailOnly
    \/ SendEmailReturns /\ EmailOnly
    \/ SendEmailRaisesEmailError /\ EmailOnly
    \/ SendEmailRaisesOther /\ EmailOnly

-----------------------------------------------------------------------------
(* DMMailChimpClient: its operations as the tests of                       *)
(* tests/email/test_dm_mailchimp.py fix them                               *)

MaxLoggedErrors == 2

\* Python values of different types, told apart by their field
PyFalse == [bool |-> FALSE]
PyTrue == [bool |-> TRUE]
PyStr(x) == [str |-> x]
PyDict(d) == [dict |-> d]

CampaignIds == {"1", "100"}
ListIds == {"list_id"}
ExceptionTexts == {"error message", "error sending"}
CampaignDatas == { [example |-> "data", settings |-> [title |-> "Foo"]] }
Contents == { [html |-> "<p>One or two words</p>"] }
ApiResponses == { [response |-> "data"] }

get_email_hash(email_address) == <<"md5", email_address>>

\* what the wrapped mailchimp3 client can do with a request
ApiOutcomes(op) ==
    { [kind |-> "RequestException", text |-> t] : t \in ExceptionTexts }
    \cup (CASE op = "create_campaign" ->
                 { [kind |-> "ok", value |-> PyDict([id |-> i])] : i \in CampaignIds }
            [] op = "set_campaign_content" ->
                 { [kind |-> "ok", value |-> PyDict(c)] : c \in Contents }
            [] op = "send_campaign" ->
                 { [kind |-> "ok", value |-> PyDict(EmptyDict)] }
            [] op = "subscribe_email_to_list" ->
                 { [kind |-> "ok", value |-> PyDict(r)] : r \in ApiResponses })

\* the message of the error each operation logs
McErrorMessage(op, a) ==
    CASE op = "create_campaign" ->
             <<"Mailchimp failed to create campaign for '", "campaign title", "'">>
      [] op = "set_campaign_content" ->
             <<"Mailchimp failed to set content for campaign id '", a.campaign_id, "'">>
      [] op = "send_campaign" ->
             <<"Mailchimp failed to send campaign id '", a.campaign_id, "'">>
      [] op = "subscribe_email_to_list" ->
             <<"Mailchimp failed to add user (", get_email_hash(a.email_address),
               ") to list (", a.list_id, ")">>

\* what each operation returns when the API call succeeds
McSuccess(op, value) ==
    CASE op = "create_campaign" -> PyStr(value.dict.id)
      [] op = "set_campaign_content" -> value
      [] op = "send_campaign" -> PyTrue
      [] op = "subscribe_email_to_list" -> value

\* a variant that lets the RequestException through
McOperation_Reraise(op, a, outcome) ==
    IF outcome.kind = "ok"
    THEN [result |-> McSuccess(op, outcome.value), logged |-> <<>>, raised |-> None]
    ELSE [result |-> NoneRec, logged |-> <<>>, raised |-> outcome.text]

\* try: <API call>; return <success value>
\* except RequestException as e: logger.error(<message>, extra={"error": str(e)}); return False
McOperation(op, a, outcome) ==
    IF outcome.kind = "ok"
    THEN [result |-> McSuccess(op, outcome.value), logged |-> <<>>, raised |-> None]
    ELSE [result |-> PyFalse,
          logged |-> << [msg |-> McErrorMessage(op, a), extra |-> [error |-> outcome.text]] >>,
          raised |-> None]

McInit ==
    /\ mc_call = NoneRec
    /\ mc_result = NoneRec
    /\ mc_raised = None
    /\ mc_log = <<>>

McCall(op, a) ==
    /\ Len(mc_log) < MaxLoggedErrors
    /\ \E outcome \in ApiOutcomes(op) :
          LET r == McOperation(op, a, outcome)
          IN  /\ mc_call' = [op |-> op, args |-> a, outcome |-> outcome]
              /\ mc_result' = r.result
              /\ mc_raised' = r.raised
              /\ mc_log' = mc_log \o r.logged

create_campaign ==
    \E d \in CampaignDatas : McCall("create_campaign", [campaign_data |-> d])

set_campaign_content ==
    \E i \in CampaignIds, c \in Contents :
        McCall("set_campaign_content", [campaign_id |-> i, content_data |-> c])

send_campaign ==
    \E i \in CampaignIds : McCall("send_campaign", [campaign_id |-> i])

subscribe_email_to_list ==
    \E l \in ListIds, e \in EmailAddresses :
        McCall("subscribe_email_to_list", [list_id |-> l, email_address |-> e])

McOnly == UNCHANGED <<view_vars, email_vars, log_vars>>

McNext ==
    \/ create_campaign /\ McOnly
    \/ set_campaign_content /\ McOnly
    \/ send_campaign /\ McOnly
    \/ subscribe_email_to_list /\ McOnly

-----------------------------------------------------------------------------
(* logging.init_app *)

MaxInitCalls == 3

Apps == {"app1", "app2"}

\* a key that app.config does not hold
Unset == "<unset>"

LogPaths == {"/var/log/app.log"}

\* the loggers init_app touches; app.logger is a logger of the app's own
AppLogger(app) == <<"app.logger", app>>
Loggers == {AppLogger(a) : a \in Apps} \cup {<<"dmutils">>, <<"dmapiclient">>, <<"root">>}

\* Python truth of a configuration value
Truthy(v) == v \notin {None, "", Unset}

LevelNo(name) ==
    CASE name = "DEBUG" -> 10
      [] name = "INFO" -> 20
      [] name = "ERROR" -> 40
      [] OTHER -> 0

\* dict.setdefault
SetDefault(cfg, key, value) ==
    IF cfg[key] = Unset THEN [cfg EXCEPT ![key] = value] ELSE cfg

\* lines 20-22
ConfigDefaults(cfg) ==
    SetDefault(SetDefault(SetDefault(cfg, "DM_LOG_LEVEL", "INFO"),
                          "DM_APP_NAME", "none"),
               "DM_LOG_PATH", None)

\* lines 50-56; `created` is the identity of the handler object: the call that made it
configure_handler(handler, cfg, formatter) ==
    [cls       |-> handler.cls,
     target    |-> handler.target,
     created   |-> handler.created,
     level     |-> cfg.DM_LOG_LEVEL,
     formatter |-> formatter,
     filters   |-> << [cls |-> "AppNameFilter", app_name |-> cfg.DM_APP_NAME],
                      [cls |-> "RequestIdFilter"] >>]

\* lines 59-75
get_handlers(cfg, call) ==
    IF Truthy(cfg.DM_LOG_PATH)
    THEN << configure_handler([cls |-> "FileHandler", target |-> <<cfg.DM_LOG_PATH>>,
                               created |-> call], cfg, "CustomLogFormatter"),
            configure_handler([cls |-> "FileHandler", target |-> <<cfg.DM_LOG_PATH, ".json">>,
                               created |-> call], cfg, "JSONFormatter") >>
    ELSE << configure_handler([cls |-> "StreamHandler", target |-> <<"sys.stderr">>,
                               created |-> call], cfg, "CustomLogFormatter") >>

\* logging.Logger.addHandler: a handler already in the list is not added again
addHandler(hs, h) ==
    IF \E i \in 1..Len(hs) : hs[i] = h THEN hs ELSE Append(hs, h)

RECURSIVE addHandlers(_, _)
addHandlers(hs, new) ==
    IF new = <<>> THEN hs ELSE addHandlers(addHandler(hs, Head(new)), Tail(new))

\* lines 38-45: the handler lists after the call
InitAppHandlers(hs, app, new, call) ==
    [lg \in Loggers |->
        IF lg = AppLogger(app) THEN addHandlers(<<>>, new)                \* line 38, then 44
        ELSE IF lg \in {<<"dmutils">>, <<"dmapiclient">>} THEN addHandlers(hs[lg], new)
        ELSE IF lg = <<"root">>
             THEN Append(hs[lg], [cls |-> "NullHandler", created |-> call])  \* line 36
        ELSE hs[lg]]

\* line 47: the handlers of app.logger that write an INFO record
InfoTargets(hs, level) ==
    IF LevelNo("INFO") < LevelNo(level) THEN <<>>
    ELSE SelectSeq(hs, LAMBDA h : LevelNo("INFO") >= LevelNo(h.level))

LogInit ==
    /\ configs = [a \in Apps |->
                    [DM_LOG_LEVEL |-> Unset, DM_APP_NAME |-> Unset, DM_LOG_PATH |-> Unset]]
    /\ handlers = [lg \in Loggers |-> <<>>]
    /\ levels = [lg \in Loggers |-> "NOTSET"]
    /\ after_request_funcs = [a \in Apps |-> 0]
    /\ init_calls = 0
    /\ last_init = NoneRec
    /\ emitted = <<>>

\* the application sets a configuration key before (or between) init_app calls
Configure ==
    /\ \E a \in Apps :
          \/ \E v \in LogPaths \cup {""} :
                /\ configs[a].DM_LOG_PATH # v
                /\ configs' = [configs EXCEPT ![a].DM_LOG_PATH = v]
          \/ /\ configs[a].DM_LOG_LEVEL # "ERROR"
             /\ configs' = [configs EXCEPT ![a].DM_LOG_LEVEL = "ERROR"]
    /\ UNCHANGED <<handlers, levels, after_request_funcs, init_calls, last_init, emitted>>

\* init_app(app), lines 19-47
init_app ==
    /\ init_calls < MaxInitCalls
    /\ \E a \in Apps :
          LET cfg  == ConfigDefaults(configs[a])
              call == init_calls + 1
              new  == get_handlers(cfg, call)
              hs   == InitAppHandlers(handlers, a, new, call)
          IN  /\ configs' = [configs EXCEPT ![a] = cfg]
              /\ after_request_funcs' = [after_request_funcs EXCEPT ![a] = @ + 1]
              /\ handlers' = hs
              /\ levels' = [lg \in Loggers |->
                              IF lg \in {AppLogger(a), <<"dmutils">>, <<"dmapiclient">>}
                              THEN cfg.DM_LOG_LEVEL ELSE levels[lg]]
              /\ init_calls' = call
              /\ last_init' = [app |-> a, config |-> cfg]
              /\ emitted' = InfoTargets(hs[AppLogger(a)], cfg.DM_LOG_LEVEL)

LogOnly == UNCHANGED <<view_vars, email_vars, mc_vars>>

LogNext ==
    \/ Configure /\ LogOnly
    \/ init_app /\ LogOnly

-----------------------------------------------------------------------------
(* Specifications *)

Init == ViewInit /\ EmailInit /\ McInit /\ LogInit

SpecView == Init /\ [][ViewNext]_vars

SpecEmail == Init /\ [][EmailNext]_vars

SpecMailchimp == Init /\ [][McNext]_vars

SpecLogging == Init /\ [][LogNext]_vars

-----------------------------------------------------------------------------
(* Properties of DownloadFileView.dispatch_request *)

CsvCalls == Count(calls, "create_csv_response")
OdsCalls == Count(calls, "create_ods_response")
HookCalls == Count(calls, "_post_request_hook")

\* determine_filetype has returned and dispatch_request has acted on the value
Decided == Index(calls, "determine_filetype") > 0 /\ pc # "branch"

\* create_csv_response or create_ods_response has returned
Built == Decided /\ response # NoneRec

IsCsvResponse(r, ctx) ==
    /\ r # NoneRec
    /\ r.status = 200
    /\ r.mimetype = "text/csv"
    /\ r.headers.ContentType = "text/csv; header=present"
    /\ r.headers.ContentDisposition = <<"attachment;filename=", ctx.filename, ".csv">>

IsOdsResponse(r, ctx) ==
    /\ r # NoneRec
    /\ r.status = 200
    /\ r.mimetype = "application/vnd.oasis.opendocument.spreadsheet"
    /\ r.headers.ContentType = "application/vnd.oasis.opendocument.spreadsheet"
    /\ r.headers.ContentDisposition = <<"attachment;filename=", ctx.filename, ".ods">>

\* C1 as stated: in every call, whatever determine_filetype returned, exactly
\* one of create_csv_response and create_ods_response is invoked.
C1_ExactlyOneWhateverReturned ==
    Decided => CsvCalls + OdsCalls = 1

\* C1 amended: never both; exactly one when determine_filetype returned a
\* value other than None; neither when it returned None (the call aborts).
C1_ExactlyOneUnlessNone ==
    /\ CsvCalls + OdsCalls <= 1
    /\ (Decided /\ file_type # None) => CsvCalls + OdsCalls = 1
    /\ (Decided /\ file_type = None) => (CsvCalls + OdsCalls = 0 /\ pc = "aborted")
    /\ ~Decided => CsvCalls + OdsCalls = 0

C1_Witness ==
    /\ pc = "returned"
    /\ file_type = "CSV"
    /\ CsvCalls = 1
    /\ OdsCalls = 0

\* C2: when determine_filetype returns None the request is aborted with 400,
\* no response is built, the post hook does not run and nothing is returned;
\* dispatch_request aborts in no other case and with no other code.
C2_NoneAborts400 ==
    /\ (Decided /\ file_type = None) =>
          /\ pc = "aborted"
          /\ abort_code = 400
          /\ CsvCalls = 0 /\ OdsCalls = 0 /\ HookCalls = 0
          /\ response = NoneRec /\ hook_response = NoneRec /\ returned = NoneRec
    /\ (pc = "aborted" \/ abort_code # 0) =>
          /\ pc = "aborted"
          /\ abort_code = 400
          /\ file_type = None
          /\ Decided

C2_Witness ==
    /\ pc = "aborted"
    /\ abort_code = 400
    /\ file_type = None
    /\ calls = <<"_pre_request_hook", "_init_clients", "get_file_context",
                 "determine_filetype">>

StepsCsv ==
    <<"_pre_request_hook", "_init_clients", "get_file_context", "determine_filetype",
      "create_csv_response", "generate_csv_rows", "_post_request_hook">>

StepsOds ==
    <<"_pre_request_hook", "_init_clients", "get_file_context", "determine_filetype",
      "create_ods_response", "generate_ods", "_post_request_hook">>

\* C6: the steps run in the fixed order pre hook, _init_clients,
\* get_file_context, determine_filetype, response building, post hook; a call
\* that returns has called the post hook exactly once, last, with the built
\* response, and returns that same response.
C6_FixedOrder ==
    /\ IsPrefix(calls, StepsCsv) \/ IsPrefix(calls, StepsOds)
    /\ HookCalls > 0 => (response # NoneRec /\ hook_response = response)
    /\ pc = "returned" =>
          /\ calls \in {StepsCsv, StepsOds}
          /\ HookCalls = 1
          /\ returned # NoneRec
          /\ returned = hook_response
          /\ returned = response
    /\ pc # "returned" => returned = NoneRec

C6_Witness ==
    /\ pc = "returned"
    /\ calls = StepsOds
    /\ returned = hook_response
    /\ IsOdsResponse(returned, file_context)

-----------------------------------------------------------------------------
(* Properties of send_user_account_email *)

EmailEnded == epc \in {"returned", "aborted", "raised"}

C3_State ==
    /\ send_outcome = "EmailError" =>
          /\ epc = "aborted"
          /\ email_abort = 503
          /\ Len(app_log) = 1
          /\ app_log[1].level = "ERROR"
          /\ app_log[1].extra.code = <<args.role, "create.fail">>
    /\ send_outcome = "OtherError" =>
          /\ epc = "raised"
          /\ app_log = <<>>
          /\ email_abort = 0
    /\ send_outcome = "returned" =>
          /\ epc = "returned"
          /\ app_log = <<>>
          /\ email_abort = 0
          /\ session.email_sent_to = args.email_address
    /\ (epc = "aborted" \/ email_abort # 0 \/ app_log # <<>>) => send_outcome = "EmailError"

C3_Step ==
    /\ send_outcome' \in {"EmailError", "OtherError"} => session' = session
    /\ session' # session =>
          /\ send_outcome' = "returned"
          /\ session'.email_sent_to = args.email_address

\* C3: an EmailError from send_email is logged once with code
\* '<role>create.fail' and answered with 503, the session untouched; the
\* session is set to email_address only when send_email returned; any other
\* exception propagates with no log entry and no 503.
C3_EmailErrorHandling == []C3_State /\ [][C3_Step]_vars

C3_Witness ==
    /\ epc = "aborted"
    /\ send_outcome = "EmailError"
    /\ email_abort = 503
    /\ Len(app_log) = 1
    /\ session.email_sent_to # None
    /\ session.email_sent_to # args.email_address

-----------------------------------------------------------------------------
(* Properties of DMMailChimpClient *)

C5_Step ==
    LET o == mc_call'.outcome
    IN  /\ mc_raised' = None
        /\ o.kind = "RequestException" =>
              /\ mc_result' = PyFalse
              /\ Len(mc_log') = Len(mc_log) + 1
              /\ SubSeq(mc_log', 1, Len(mc_log)) = mc_log
              /\ mc_log'[Len(mc_log')].extra = [error |-> o.text]
        /\ o.kind = "ok" =>
              /\ mc_log' = mc_log
              /\ mc_result' =
                    (CASE mc_call'.op = "create_campaign" -> PyStr(o.value.dict.id)
                       [] mc_call'.op = "send_campaign" -> PyTrue
                       [] OTHER -> o.value)

\* C5: create_campaign, set_campaign_content, send_campaign and
\* subscribe_email_to_list never let a RequestException out: they log one
\* error with the exception text in extra['error'] and return False; on
\* success they return the success value and log nothing.
C5_RequestExceptionLogged == [][C5_Step]_vars

C5_Witness ==
    /\ mc_call # NoneRec
    /\ mc_call.op = "subscribe_email_to_list"
    /\ mc_call.outcome.kind = "RequestException"
    /\ mc_result = PyFalse
    /\ mc_raised = None
    /\ Len(mc_log) = 2
    /\ mc_log[2].extra.error = mc_call.outcome.text

-----------------------------------------------------------------------------
(* Properties of logging.init_app *)

\* the handlers get_handlers builds for a configuration
HandlersAsConfigured(hs, cfg) ==
    IF Truthy(cfg.DM_LOG_PATH)
    THEN /\ Len(hs) = 2
         /\ hs[1].cls = "FileHandler" /\ hs[1].target = <<cfg.DM_LOG_PATH>>
         /\ hs[1].formatter = "CustomLogFormatter"
         /\ hs[2].cls = "FileHandler" /\ hs[2].target = <<cfg.DM_LOG_PATH, ".json">>
         /\ hs[2].formatter = "JSONFormatter"
    ELSE /\ Len(hs) = 1
         /\ hs[1].cls = "StreamHandler" /\ hs[1].target = <<"sys.stderr">>

\* C8: after one or more init_app calls, app.logger, 'dmutils' and
\* 'dmapiclient' each carry exactly the handlers the most recent call
\* created (two file handlers when DM_LOG_PATH is set, else one stderr
\* handler) and none from earlier calls.
C8_OnlyLatestHandlers ==
    init_calls >= 1 =>
        \A lg \in {AppLogger(last_init.app), <<"dmutils">>, <<"dmapiclient">>} :
            /\ \A i \in 1..Len(handlers[lg]) : handlers[lg][i].created = init_calls
            /\ HandlersAsConfigured(handlers[lg], last_init.config)

====
